---- MODULE Spec2Model ----
(***************************************************************************)
(* SM4 block cipher (scalar engine of SM4Ttable.cpp, class SM4 of          *)
(* sm4_gcm.cpp, table/AVX engine of part_001), the SM4-GCM authenticated   *)
(* cipher and the multi-threaded batch executor, modelled at full width.   *)
(*                                                                         *)
(* Representation.  A byte is a number in 0..255.  A uint32_t is a tuple   *)
(* of four bytes, most significant first (<<bits 31..24, ..., bits 7..0>>),*)
(* because a 32-bit value does not fit the model checker's integers.  A    *)
(* uint64_t is a tuple of eight bytes, least significant first.  Byte      *)
(* buffers are sequences; C index i is sequence index i + 1.  Where the    *)
(* code copies bytes into an integer with memcpy or reinterpret_cast the   *)
(* model uses the little-endian layout of the x86 target (immintrin.h).    *)
(***************************************************************************)
EXTENDS Integers, Sequences, FiniteSets, TLC

(***************************************************************************)
(* Bit operations on nibbles, bytes and words                              *)
(***************************************************************************)
\* 2^n for 0 <= n <= 8
Pow2(n) == <<1, 2, 4, 8, 16, 32, 64, 128, 256>>[n + 1]

RECURSIVE BitXor(_, _, _)
BitXor(a, b, n) ==
    IF n = 0 THEN 0
    ELSE (IF (a % 2) # (b % 2) THEN 1 ELSE 0) + 2 * BitXor(a \div 2, b \div 2, n - 1)

RECURSIVE BitOr(_, _, _)
BitOr(a, b, n) ==
    IF n = 0 THEN 0
    ELSE (IF (a % 2) + (b % 2) > 0 THEN 1 ELSE 0) + 2 * BitOr(a \div 2, b \div 2, n - 1)

XorByte == [a \in 0..255 |-> [b \in 0..255 |-> BitXor(a, b, 8)]]
OrNibble == [a \in 0..15 |-> ([b \in 0..15 |-> BitOr(a, b, 4)])]

\* a ^ b on uint8_t
XorB(a, b) == XorByte[a][b]
\* a | b on uint8_t
OrB(a, b) == 16 * OrNibble[a \div 16][b \div 16] + OrNibble[a % 16][b % 16]

\* a ^ b on uint32_t
XorW(a, b) == <<XorB(a[1], b[1]), XorB(a[2], b[2]), XorB(a[3], b[3]), XorB(a[4], b[4])>>
\* a | b on uint32_t
OrW(a, b) == <<OrB(a[1], b[1]), OrB(a[2], b[2]), OrB(a[3], b[3]), OrB(a[4], b[4])>>

\* a ^ b on byte buffers of equal length
XorBytes(a, b) == [j \in 1..Len(a) |-> XorB(a[j], b[j])]

\* x << n on uint32_t, 0 <= n <= 31: the bits shifted out at the top are lost
ShlW(x, n) ==
    LET q == n \div 8
        up == Pow2(n % 8)
        down == Pow2(8 - (n % 8))
        B == x \o <<0, 0, 0, 0, 0>>
    IN  <<((B[1 + q] * up) % 256) + (B[2 + q] \div down),
          ((B[2 + q] * up) % 256) + (B[3 + q] \div down),
          ((B[3 + q] * up) % 256) + (B[4 + q] \div down),
          ((B[4 + q] * up) % 256) + (B[5 + q] \div down)>>

\* x >> n on uint32_t, 1 <= n <= 32 (logical shift)
ShrW(x, n) ==
    LET q == n \div 8
        down == Pow2(n % 8)
        up == Pow2(8 - (n % 8))
        B == <<0, 0, 0, 0, 0>> \o x
    IN  <<(B[6 - q] \div down) + ((B[5 - q] * up) % 256),
          (B[7 - q] \div down) + ((B[6 - q] * up) % 256),
          (B[8 - q] \div down) + ((B[7 - q] * up) % 256),
          (B[9 - q] \div down) + ((B[8 - q] * up) % 256)>>

\* TRUE of every sequence.  Testing it makes the model checker compute v at once:
\* a value carried round a loop is then not kept as a suspended computation as
\* deep as the loop is long.
Computed(v) == Len(v) >= 0

ZeroWord == <<0, 0, 0, 0>>
ZeroBlock == [j \in 1..16 |-> 0]

\* (b0 << 24) | (b1 << 16) | (b2 << 8) | b3: the big-endian read of four bytes
BEWord(buf, i) == <<buf[4 * i + 1], buf[4 * i + 2], buf[4 * i + 3], buf[4 * i + 4]>>
\* memcpy of four bytes into a uint32_t on the little-endian target
LEWord(buf, i) == <<buf[4 * i + 4], buf[4 * i + 3], buf[4 * i + 2], buf[4 * i + 1]>>
\* the four words written back as bytes, most significant byte first
BEBytes(ws) == [j \in 1..16 |-> ws[((j - 1) \div 4) + 1][((j - 1) % 4) + 1]]
\* memcpy of four uint32_t to a byte buffer on the little-endian target
LEBytes(ws) == [j \in 1..16 |-> ws[((j - 1) \div 4) + 1][4 - ((j - 1) % 4)]]

(***************************************************************************)
(* Tables shared by the engines                                            *)
(***************************************************************************)
SM4_SBOX ==
  <<214,144,233,254,204,225,61,183,22,182,20,194,40,251,44,5,
    43,103,154,118,42,190,4,195,170,68,19,38,73,134,6,153,
    156,66,80,244,145,239,152,122,51,84,11,67,237,207,172,98,
    228,179,28,169,201,8,232,149,128,223,148,250,117,143,63,166,
    71,7,167,252,243,115,23,186,131,89,60,25,230,133,79,168,
    104,107,129,178,113,100,218,139,248,235,15,75,112,86,157,53,
    30,36,14,94,99,88,209,162,37,34,124,59,1,33,120,135,
    212,0,70,87,159,211,39,82,76,54,2,231,160,196,200,158,
    234,191,138,210,64,199,56,181,163,247,242,206,249,97,21,161,
    224,174,93,164,155,52,26,85,173,147,50,48,245,140,177,227,
    29,246,226,46,130,102,202,96,192,41,35,171,13,83,78,111,
    213,219,55,69,222,253,142,47,3,255,106,114,109,108,91,81,
    141,27,175,146,187,221,188,127,17,217,92,65,31,16,90,216,
    10,193,49,136,165,205,123,189,45,116,208,18,184,229,180,176,
    137,105,151,74,12,150,119,126,101,185,241,9,197,110,198,132,
    24,240,125,236,58,220,77,32,121,238,95,62,215,203,57,72>>

SM4_CK ==
  <<<<0,7,14,21>>, <<28,35,42,49>>, <<56,63,70,77>>, <<84,91,98,105>>,
    <<112,119,126,133>>, <<140,147,154,161>>, <<168,175,182,189>>, <<196,203,210,217>>,
    <<224,231,238,245>>, <<252,3,10,17>>, <<24,31,38,45>>, <<52,59,66,73>>,
    <<80,87,94,101>>, <<108,115,122,129>>, <<136,143,150,157>>, <<164,171,178,185>>,
    <<192,199,206,213>>, <<220,227,234,241>>, <<248,255,6,13>>, <<20,27,34,41>>,
    <<48,55,62,69>>, <<76,83,90,97>>, <<104,111,118,125>>, <<132,139,146,153>>,
    <<160,167,174,181>>, <<188,195,202,209>>, <<216,223,230,237>>, <<244,251,2,9>>,
    <<16,23,30,37>>, <<44,51,58,65>>, <<72,79,86,93>>, <<100,107,114,121>>>>

SM4_FK ==
  <<<<163,177,186,198>>, <<86,170,51,80>>, <<103,125,145,151>>, <<178,112,34,220>>>>

(***************************************************************************)
(* Scalar engine (SM4Ttable.cpp)                                           *)
(***************************************************************************)
rotate_left(value, shift) == OrW(ShlW(value, shift), ShrW(value, 32 - shift))

substitute_bytes(input) ==
    <<SM4_SBOX[input[1] + 1], SM4_SBOX[input[2] + 1],
      SM4_SBOX[input[3] + 1], SM4_SBOX[input[4] + 1]>>

\* a diffusion step built from plain shifts, which lose the bits shifted out
linear_transform_shifts(input) ==
    XorW(XorW(XorW(XorW(input, ShlW(input, 2)), ShlW(input, 10)),
              ShlW(input, 18)), ShlW(input, 24))

linear_transform(input) ==
    XorW(XorW(XorW(XorW(input, rotate_left(input, 2)), rotate_left(input, 10)),
              rotate_left(input, 18)), rotate_left(input, 24))

nonlinear_transform(input) == linear_transform(substitute_bytes(input))

\* the loop filling key_reg[4..35]; key_reg is kept whole, as in the code
RECURSIVE key_reg_fill(_, _)
key_reg_fill(key_reg, idx) ==
    IF idx = 32 THEN key_reg
    ELSE LET temp0 == XorW(XorW(XorW(key_reg[idx + 2], key_reg[idx + 3]),
                                key_reg[idx + 4]), SM4_CK[idx + 1])
             temp1 == substitute_bytes(temp0)
             temp2 == XorW(temp1, XorW(rotate_left(temp1, 13), rotate_left(temp1, 23)))
             next == Append(key_reg, XorW(key_reg[idx + 1], temp2))
         IN  IF Computed(next) THEN key_reg_fill(next, idx + 1) ELSE next

generate_round_keys(main_key) ==
    LET key_reg == [idx \in 1..4 |-> XorW(BEWord(main_key, idx - 1), SM4_FK[idx])]
    IN  SubSeq(key_reg_fill(key_reg, 0), 5, 36)

\* the 32 rounds filling state[4..35]
RECURSIVE state_fill(_, _, _)
state_fill(state, round_keys, idx) ==
    IF idx = 32 THEN state
    ELSE LET temp == XorW(XorW(XorW(state[idx + 2], state[idx + 3]), state[idx + 4]),
                          round_keys[idx + 1])
             next == Append(state, XorW(state[idx + 1], nonlinear_transform(temp)))
         IN  IF Computed(next) THEN state_fill(next, round_keys, idx + 1) ELSE next

sm4_block_encrypt(in, round_keys) ==
    LET state == state_fill([idx \in 1..4 |-> BEWord(in, idx - 1)], round_keys, 0)
    IN  BEBytes([idx \in 1..4 |-> state[36 - (idx - 1)]])

\* a decryption that applies the round keys in encryption order
sm4_block_decrypt_forward(in, round_keys) == sm4_block_encrypt(in, round_keys)

sm4_block_decrypt(in, round_keys) ==
    LET reversed_round_keys == [idx \in 1..32 |-> round_keys[32 - (idx - 1)]]
    IN  sm4_block_encrypt(in, reversed_round_keys)

(***************************************************************************)
(* class SM4 (sm4_gcm.cpp): the block engine used by SM4_GCM                *)
(***************************************************************************)
\* SM4_SBOX applied to each of the four bytes of x in memory
sbox(x) == <<SM4_SBOX[x[1] + 1], SM4_SBOX[x[2] + 1], SM4_SBOX[x[3] + 1], SM4_SBOX[x[4] + 1]>>

\* x ^ (x << 2) ^ (x << 10) ^ (x << 18) ^ (x << 24): plain shifts
L(x) == XorW(XorW(XorW(XorW(x, ShlW(x, 2)), ShlW(x, 10)), ShlW(x, 18)), ShlW(x, 24))

\* x ^ (x << 13) ^ (x << 23): plain shifts
LPrime(x) == XorW(XorW(x, ShlW(x, 13)), ShlW(x, 23))

RECURSIVE k_fill(_, _)
k_fill(k, i) ==
    IF i = 32 THEN k
    ELSE LET t == XorW(XorW(XorW(k[i + 2], k[i + 3]), k[i + 4]), SM4_CK[i + 1])
             next == Append(k, XorW(k[i + 1], LPrime(sbox(t))))
         IN  IF Computed(next) THEN k_fill(next, i + 1) ELSE next

\* the rk_ left by SM4::keyExpansion (and so by SM4::setKey)
keyExpansion(key) ==
    LET mk == [i \in 1..4 |-> LEWord(key, i - 1)]
        k == [i \in 1..4 |-> XorW(mk[i], SM4_FK[i])]
    IN  SubSeq(k_fill(k, 0), 5, 36)

\* one round and the rotation of x[0..3]; rk is the round key of this round
sm4_round(x, rk) ==
    LET t == L(sbox(XorW(XorW(XorW(x[2], x[3]), x[4]), rk)))
    IN  <<x[2], x[3], x[4], XorW(x[1], t)>>

RECURSIVE encrypt_rounds(_, _, _)
encrypt_rounds(x, rk, i) ==
    IF i = 32 THEN x
    ELSE LET next == sm4_round(x, rk[i + 1])
         IN  IF Computed(next) THEN encrypt_rounds(next, rk, i + 1) ELSE next

RECURSIVE decrypt_rounds(_, _, _)
decrypt_rounds(x, rk, i) ==
    IF i = 32 THEN x
    ELSE LET next == sm4_round(x, rk[32 - 1 - i + 1])
         IN  IF Computed(next) THEN decrypt_rounds(next, rk, i + 1) ELSE next

\* the swaps x[0] <-> x[3], x[1] <-> x[2]
reverse_words(x) == <<x[4], x[3], x[2], x[1]>>

encryptBlock(input, rk) ==
    LET x == [i \in 1..4 |-> LEWord(input, i - 1)]
    IN  LEBytes(reverse_words(encrypt_rounds(x, rk, 0)))

decryptBlock(input, rk) ==
    LET x == [i \in 1..4 |-> LEWord(input, i - 1)]
    IN  LEBytes(reverse_words(decrypt_rounds(x, rk, 0)))

(***************************************************************************)
(* class SM4_GCM (sm4_gcm.cpp)                                             *)
(***************************************************************************)
SM4_BLOCK_SIZE == 16
GCM_IV_SIZE == 12

Min(a, b) == IF a < b THEN a ELSE b

\* sum over i = 0..k of x[i] * y[k - i] (bytes of two little-endian uint64_t)
RECURSIVE LimbSum(_, _, _, _)
LimbSum(x, y, k, i) ==
    IF i > k THEN 0 ELSE x[i + 1] * y[k - i + 1] + LimbSum(x, y, k, i + 1)

RECURSIVE MulLimbs(_, _, _, _)
MulLimbs(x, y, k, carry) ==
    IF k = 8 THEN <<>>
    ELSE LET s == carry + LimbSum(x, y, k, 0)
         IN  <<s % 256>> \o MulLimbs(x, y, k + 1, s \div 256)

\* x * y on uint64_t: the product modulo 2^64
Mul64(x, y) == MulLimbs(x, y, 0, 0)

gcmMultiply(a, b) ==
    LET a_low == SubSeq(a, 9, 16)
        a_high == SubSeq(a, 1, 8)
        b_low == SubSeq(b, 9, 16)
        b_high == SubSeq(b, 1, 8)
        res_high == Mul64(a_high, b_high)
        res_low == Mul64(a_low, b_low)
    IN  res_high \o res_low

\* the loop over the complete blocks of data
RECURSIVE ghash_blocks(_, _, _, _, _)
ghash_blocks(data, num_blocks, h, temp_hash, i) ==
    IF i = num_blocks THEN temp_hash
    ELSE LET block == SubSeq(data, i * SM4_BLOCK_SIZE + 1, (i + 1) * SM4_BLOCK_SIZE)
             temp_result == gcmMultiply(XorBytes(temp_hash, block), h)
         IN  IF Computed(temp_result)
             THEN ghash_blocks(data, num_blocks, h, temp_result, i + 1)
             ELSE temp_result

ghash(data, h) ==
    LET len == Len(data)
        num_blocks == len \div SM4_BLOCK_SIZE
        remaining == len % SM4_BLOCK_SIZE
        temp_hash == ghash_blocks(data, num_blocks, h, ZeroBlock, 0)
        last_block == [j \in 1..SM4_BLOCK_SIZE |->
                          IF j <= remaining THEN data[num_blocks * SM4_BLOCK_SIZE + j]
                          ELSE 0]
    IN  IF remaining > 0 THEN gcmMultiply(XorBytes(temp_hash, last_block), h)
        ELSE temp_hash

\* a counter block that holds the counter with its low byte first
generateCounterBlock_low_first(counter, iv, uninit) ==
    [j \in 1..SM4_BLOCK_SIZE |->
        CASE j <= Min(Len(iv), 12) -> iv[j]
          [] j > Min(Len(iv), 12) /\ j <= 12 -> uninit
          [] j = 13 -> counter % 256
          [] j = 14 -> (counter \div 256) % 256
          [] j = 15 -> (counter \div 65536) % 256
          [] j = 16 -> 0]

\* counter is a block index, far below 2^24: (counter >> 24) & 0xFF is 0.
\* uninit is the content of the bytes of block that memcpy does not reach.
generateCounterBlock(counter, iv, uninit) ==
    [j \in 1..SM4_BLOCK_SIZE |->
        CASE j <= Min(Len(iv), 12) -> iv[j]
          [] j > Min(Len(iv), 12) /\ j <= 12 -> uninit
          [] j = 13 -> 0
          [] j = 14 -> (counter \div 65536) % 256
          [] j = 15 -> (counter \div 256) % 256
          [] j = 16 -> counter % 256]

\* A counter-mode loop: block i of in (a complete block, or the remaining bytes
\* after num_blocks blocks) is XORed with the encryption of the counter block
\* of counter i + first; out holds the bytes written so far
RECURSIVE ctr_loop(_, _, _, _, _, _, _)
ctr_loop(in, rk, iv, uninit, first, out, i) ==
    IF i * SM4_BLOCK_SIZE >= Len(in) THEN out
    ELSE LET counter_block == generateCounterBlock(i + first, iv, uninit)
             encrypted_counter == encryptBlock(counter_block, rk)
             n == Min(SM4_BLOCK_SIZE, Len(in) - i * SM4_BLOCK_SIZE)
             next == out \o [j \in 1..n |->
                                XorB(in[i * SM4_BLOCK_SIZE + j], encrypted_counter[j])]
         IN  IF Computed(next) THEN ctr_loop(in, rk, iv, uninit, first, next, i + 1)
             ELSE next

\* step 1 of encryptAndAuthenticate: the ciphertext bytes written
encrypt_ctr(pt, rk, iv, uninit) == ctr_loop(pt, rk, iv, uninit, 1, <<>>, 0)

\* a decryption loop whose block counters start at 0
decrypt_ctr_from_zero(ct, rk, iv, uninit) == ctr_loop(ct, rk, iv, uninit, 0, <<>>, 0)

\* step 1 of decryptAndVerify: the plaintext bytes written
decrypt_ctr(ct, rk, iv, uninit) == ctr_loop(ct, rk, iv, uninit, 1, <<>>, 0)

\* *reinterpret_cast<uint64_t*>(bytes) = len * 8 on the little-endian target
len_bytes(len) ==
    LET v == len * 8
    IN  <<v % 256, (v \div 256) % 256, (v \div 65536) % 256, (v \div 16777216) % 256,
          0, 0, 0, 0>>

ghash_input(aad, ct) == aad \o ct \o len_bytes(Len(aad)) \o len_bytes(Len(ct))

\* encrypted_j0 ^ ghash_result
compute_tag(aad, ct, rk, h, j0) == XorBytes(encryptBlock(j0, rk), ghash(ghash_input(aad, ct), h))

\* memcmp(a, b, n): the sign of the first difference in the first n bytes
RECURSIVE memcmp_from(_, _, _, _)
memcmp_from(a, b, n, j) ==
    IF j > n THEN 0
    ELSE IF a[j] < b[j] THEN -1
    ELSE IF a[j] > b[j] THEN 1
    ELSE memcmp_from(a, b, n, j + 1)

\* a comparison that leaves out the last of the n bytes
memcmp_but_last(a, b, n) == memcmp_from(a, b, n - 1, 1)

memcmp(a, b, n) == memcmp_from(a, b, n, 1)

(***************************************************************************)
(* Inputs                                                                  *)
(***************************************************************************)
NumKeys == 2
NumBlocks == 2
NumIVs == 1
MaxMsgLen == 17
MaxAadLen == 8
MaxThreads == 3
MaxBlocks == 32
NumBuffers == 1

\* the key of sm4_gcm.cpp's main, which is also the key of the published vector
StdKey == <<1, 35, 69, 103, 137, 171, 205, 239, 254, 220, 186, 152, 118, 84, 50, 16>>
\* "0123456789abcdef", the key of SM4Ttable.cpp's and part_001's main
DemoKey == <<48, 49, 50, 51, 52, 53, 54, 55, 56, 57, 97, 98, 99, 100, 101, 102>>
\* "hello, sm4 demo!", the block of SM4Ttable.cpp's and part_001's main
DemoBlock == <<104, 101, 108, 108, 111, 44, 32, 115, 109, 52, 32, 100, 101, 109, 111, 33>>
\* the IV of sm4_gcm.cpp's main
DemoIV == <<1, 35, 69, 103, 137, 171, 205, 239, 254, 220, 186, 152>>

\* further input bytes: byte j of the input numbered seed
Pattern(seed, len) == [j \in 1..len |-> (seed * 89 + j * 37 + seed * j * 11 + 5) % 256]

KeyOf(n) == CASE n = 1 -> StdKey [] n = 2 -> DemoKey [] OTHER -> Pattern(n, 16)
BlockOf(n) == CASE n = 1 -> StdKey [] n = 2 -> DemoBlock [] OTHER -> Pattern(n + 7, 16)
Keys == {KeyOf(n) : n \in 1..NumKeys}
Blocks == {BlockOf(n) : n \in 1..NumBlocks}

\* 12-byte IVs, and one IV shorter and one longer than GCM_IV_SIZE
IVs12 == {IF n = 1 THEN DemoIV ELSE Pattern(n + 3, GCM_IV_SIZE) : n \in 1..NumIVs}
IVsOther == {Pattern(21, 8), Pattern(22, 13)}

\* message lengths: empty, less than a block, one block, more than a block
MsgLens == {0, 3, SM4_BLOCK_SIZE, MaxMsgLen}
Messages == {Pattern(len + 40, len) : len \in MsgLens}
AADs == {Pattern(len + 60, len) : len \in {0, MaxAadLen}}
TagLens == {0, 4, 16, 17}

\* totalBlocks: no batch, less than a batch, two batches and a tail of three
\* blocks, four batches
BlockCounts == {0, 7, 19, MaxBlocks}
\* the input buffers of ExecuteParallel, all blocks different
PlainBuffers(n) == {Pattern(b + 30, n * 16) : b \in 1..NumBuffers}
\* what std::thread::hardware_concurrency() may return (0: not computable)
HardwareConcurrency == 0..MaxThreads
\* the batchSize arguments: the default, which main passes, and a larger one
BatchSizes == {8, 16}

\* values an uninitialized byte may hold
UninitBytes == {0, 204}

(***************************************************************************)
(* State                                                                   *)
(***************************************************************************)
VARIABLES
    rk_,          \* SM4::rk_ (of SM4_GCM::sm4_, or of a stand-alone SM4 object)
    iv_,          \* SM4_GCM::iv_
    h_,           \* SM4_GCM::h_
    j0_,          \* SM4_GCM::j0_
    key,          \* the key last given to setKey, <<>> before the first setKey
    cerr,         \* TRUE when the last setIV wrote its error line to std::cerr
    enc,          \* the last encryptAndAuthenticate call of the current message
    dec,          \* the last decryptAndVerify call of the current message
    secret_key,   \* SM4Ttable.cpp main: the key
    plaintext,    \* SM4Ttable.cpp main: the block to encrypt
    round_keys,   \* SM4Ttable.cpp main: generate_round_keys' result, <<>> before
    ciphertext,   \* SM4Ttable.cpp main: sm4_block_encrypt's output, <<>> before
    decrypted,    \* SM4Ttable.cpp main: sm4_block_decrypt's output, <<>> before
    sm4_out,      \* output of SM4::encryptBlock on plaintext, <<>> before
    sm4_dec,      \* output of SM4::decryptBlock on sm4_out, <<>> before
    T0, T1, T2, T3,   \* SM4Core::T0..T3 (part_001)
    roundKeys,    \* part_001 main: KeyExpansion's result, <<>> before
    plainData,    \* part_001 main: the input buffer
    cipherData,   \* part_001 main: the output buffer
    totalBlocks,  \* ExecuteParallel's argument
    batchSize,    \* ExecuteParallel's argument
    threadCount,  \* ExecuteParallel's local
    thread_i,     \* ExecuteParallel: i of the loop that starts the workers
    offset,       \* ExecuteParallel's local
    workers,      \* ExecuteParallel: the threads started, each with EncryptionTask's
                  \* arguments (as byte offsets into the buffers) and its loop index i
    joined,       \* ExecuteParallel: the number of workers the last loop has joined
    pc            \* part_001 main: the next call, or the position in ExecuteParallel

gcmVars == <<iv_, h_, j0_, key, cerr, enc, dec>>
blockVars == <<secret_key, plaintext, round_keys, ciphertext, decrypted, sm4_out, sm4_dec>>
tableVars == <<T0, T1, T2, T3>>
execVars == <<roundKeys, plainData, cipherData, totalBlocks, batchSize, threadCount,
              thread_i, offset, workers, joined, pc>>
parVars == <<tableVars, execVars>>
vars == <<rk_, gcmVars, blockVars, parVars>>

NoCall == [op |-> "none"]

\* std::array<uint32_t, 32> rk_ is not initialized by SM4() = default
UninitRk == {[i \in 1..32 |-> <<u, u, u, u>>] : u \in UninitBytes}

\* SM4_GCM sm4_gcm;
InitGcm ==
    /\ rk_ \in UninitRk
    /\ iv_ = <<>>
    /\ h_ = ZeroBlock
    /\ j0_ = ZeroBlock
    /\ key = <<>>
    /\ cerr = FALSE
    /\ enc = NoCall
    /\ dec = NoCall

\* array<uint32_t, 256> T0, T1, T2, T3 at namespace scope are zero-initialized
ZeroTable == [b \in 1..256 |-> ZeroWord]

IdlePar ==
    /\ T0 = ZeroTable
    /\ T1 = ZeroTable
    /\ T2 = ZeroTable
    /\ T3 = ZeroTable
    /\ roundKeys = <<>>
    /\ plainData = <<>>
    /\ cipherData = <<>>
    /\ totalBlocks = 0
    /\ batchSize = 8
    /\ threadCount = 1
    /\ thread_i = 0
    /\ offset = 0
    /\ workers = <<>>
    /\ joined = 0
    /\ pc = "idle"

IdleBlock ==
    /\ secret_key = <<>>
    /\ plaintext = <<>>
    /\ round_keys = <<>>
    /\ ciphertext = <<>>
    /\ decrypted = <<>>
    /\ sm4_out = <<>>
    /\ sm4_dec = <<>>

(***************************************************************************)
(* SM4_GCM operations.  enc and dec record the caller's buffers of the     *)
(* current message.  The caller works message by message: it sets the key  *)
(* and the IV while it holds no message, encrypts a message (once, or again *)
(* into the same buffers) or decrypts one, and drops the buffers            *)
(* (NewMessage) before the next calls.                                     *)
(***************************************************************************)
NoMessage == enc = NoCall /\ dec = NoCall

\* a setKey that derives the hash subkey for the first key only
SetKey_first_subkey(k) ==
    /\ NoMessage
    /\ rk_' = keyExpansion(k)
    /\ h_' = IF key = <<>> THEN encryptBlock(ZeroBlock, rk_') ELSE h_
    /\ key' = k
    /\ UNCHANGED <<iv_, j0_, cerr, enc, dec, blockVars, parVars>>

SetKey(k) ==
    /\ NoMessage
    /\ rk_' = keyExpansion(k)
    /\ h_' = encryptBlock(ZeroBlock, rk_')
    /\ key' = k
    /\ UNCHANGED <<iv_, j0_, cerr, enc, dec, blockVars, parVars>>

\* a setIV whose J0 ends in the counter value 0
SetIV_zero_counter(iv) ==
    /\ NoMessage
    /\ iv_' = iv
    /\ IF Len(iv) = GCM_IV_SIZE
       THEN /\ j0_' = iv \o <<0, 0, 0, 0>>
            /\ cerr' = FALSE
       ELSE /\ j0_' = ZeroBlock
            /\ cerr' = TRUE
    /\ UNCHANGED <<rk_, h_, key, enc, dec, blockVars, parVars>>

SetIV(iv) ==
    /\ NoMessage
    /\ iv_' = iv
    /\ IF Len(iv) = GCM_IV_SIZE
       THEN /\ j0_' = iv \o <<0, 0, 0, 1>>
            /\ cerr' = FALSE
       ELSE /\ j0_' = ZeroBlock
            /\ cerr' = TRUE
    /\ UNCHANGED <<rk_, h_, key, enc, dec, blockVars, parVars>>

\* the caller is done with the message and its buffers
NewMessage ==
    /\ ~NoMessage
    /\ enc' = NoCall
    /\ dec' = NoCall
    /\ UNCHANGED <<rk_, iv_, h_, j0_, key, cerr, blockVars, parVars>>

\* the bytes of counter_block that generateCounterBlock leaves unwritten
UninitChoices == IF Len(iv_) < 12 THEN UninitBytes ELSE {0}

\* an encryptAndAuthenticate that tests tagLen after the ciphertext was written
EncryptAndAuthenticate_late_check(pt, aad, tagLen, uninit) ==
    /\ dec = NoCall
    /\ enc' = [op |-> "encryptAndAuthenticate", plaintext |-> pt, aad |-> aad,
               tagLen |-> tagLen, ciphertext |-> encrypt_ctr(pt, rk_, iv_, uninit),
               tag |-> IF tagLen > SM4_BLOCK_SIZE THEN <<>>
                       ELSE compute_tag(aad, encrypt_ctr(pt, rk_, iv_, uninit), rk_, h_, j0_),
               ret |-> tagLen <= SM4_BLOCK_SIZE]
    /\ UNCHANGED <<rk_, iv_, h_, j0_, key, cerr, dec, blockVars, parVars>>

EncryptAndAuthenticate(pt, aad, tagLen, uninit) ==
    /\ dec = NoCall
    /\ IF tagLen > SM4_BLOCK_SIZE
       THEN enc' = [op |-> "encryptAndAuthenticate", plaintext |-> pt, aad |-> aad,
                    tagLen |-> tagLen, ciphertext |-> <<>>, tag |-> <<>>, ret |-> FALSE]
       ELSE LET ct == encrypt_ctr(pt, rk_, iv_, uninit)
            IN  enc' = [op |-> "encryptAndAuthenticate", plaintext |-> pt, aad |-> aad,
                        tagLen |-> tagLen, ciphertext |-> ct,
                        tag |-> compute_tag(aad, ct, rk_, h_, j0_), ret |-> TRUE]
    /\ UNCHANGED <<rk_, iv_, h_, j0_, key, cerr, dec, blockVars, parVars>>

DecryptAndVerify(ct, aad, tag, tagLen, uninit, tamper) ==
    /\ dec = NoCall
    /\ IF tagLen > SM4_BLOCK_SIZE
       THEN dec' = [op |-> "decryptAndVerify", ciphertext |-> ct, aad |-> aad, tag |-> tag,
                    tagLen |-> tagLen, tamper |-> tamper, plaintext |-> <<>>,
                    expected_tag |-> <<>>, ret |-> FALSE]
       ELSE LET expected_tag == compute_tag(aad, ct, rk_, h_, j0_)
            IN  dec' = [op |-> "decryptAndVerify", ciphertext |-> ct, aad |-> aad,
                        tag |-> tag, tagLen |-> tagLen, tamper |-> tamper,
                        plaintext |-> decrypt_ctr(ct, rk_, iv_, uninit),
                        expected_tag |-> expected_tag,
                        ret |-> (memcmp(tag, expected_tag, tagLen) = 0)]
    /\ UNCHANGED <<rk_, iv_, h_, j0_, key, cerr, enc, blockVars, parVars>>

\* the caller encrypts the first message since the last NewMessage
EncryptFirst ==
    /\ enc = NoCall
    /\ \E pt \in Messages, aad \in AADs, tagLen \in TagLens, uninit \in UninitChoices :
          EncryptAndAuthenticate(pt, aad, tagLen, uninit)

\* after a successful encryptAndAuthenticate the caller calls it again on the same
\* object, with no setKey and no setIV in between, on the same or on another
\* plaintext and into the same buffers
EncryptAgain ==
    /\ enc # NoCall
    /\ enc.ret
    /\ \E pt \in Messages, uninit \in UninitChoices :
          EncryptAndAuthenticate(pt, enc.aad, enc.tagLen, uninit)

\* buf with bit b of its byte i inverted
FlipBit(buf, i, b) ==
    [buf EXCEPT ![i] = IF (@ \div Pow2(b)) % 2 = 1 THEN @ - Pow2(b) ELSE @ + Pow2(b)]

\* the single-bit changes tried on a produced message: the lowest and the highest
\* bit of every byte of the ciphertext, the AAD and the tag
Tampers(e) ==
    {<<"ciphertext", i, b>> : i \in 1..Len(e.ciphertext), b \in {0, 7}}
      \cup {<<"aad", i, b>> : i \in 1..Len(e.aad), b \in {0, 7}}
      \cup {<<"tag", i, b>> : i \in 1..Len(e.tag), b \in {0, 7}}

Tampered(buf, field, tamper) ==
    IF tamper[1] = field THEN FlipBit(buf, tamper[2], tamper[3]) ELSE buf

\* the caller decrypts what encryptAndAuthenticate produced
DecryptProduced ==
    /\ enc # NoCall
    /\ enc.ret
    /\ \E uninit \in UninitChoices :
          DecryptAndVerify(enc.ciphertext, enc.aad, enc.tag, enc.tagLen, uninit,
                           <<"none", 0, 0>>)

\* the caller decrypts what was produced under a set key and a 12-byte IV, with
\* exactly one bit inverted on the way
DecryptTampered ==
    /\ enc # NoCall
    /\ enc.ret
    /\ key # <<>>
    /\ Len(iv_) = GCM_IV_SIZE
    /\ \E tamper \in Tampers(enc) :
          DecryptAndVerify(Tampered(enc.ciphertext, "ciphertext", tamper),
                           Tampered(enc.aad, "aad", tamper),
                           Tampered(enc.tag, "tag", tamper),
                           enc.tagLen, 0, tamper)

\* the caller decrypts a ciphertext, AAD and tag that this object did not produce
DecryptForeign ==
    /\ enc = NoCall
    /\ \E ct \in Messages, aad \in AADs, tagLen \in TagLens, uninit \in UninitChoices :
          DecryptAndVerify(ct, aad, ZeroBlock, tagLen, uninit, <<"foreign", 0, 0>>)

Next ==
    \/ \E k \in Keys : SetKey(k)
    \/ \E iv \in IVs12 \cup IVsOther : SetIV(iv)
    \/ EncryptFirst
    \/ EncryptAgain
    \/ DecryptProduced
    \/ DecryptTampered
    \/ DecryptForeign
    \/ NewMessage

Init == InitGcm /\ IdleBlock /\ IdlePar

Spec == Init /\ [][Next]_vars

(***************************************************************************)
(* Properties of SM4_GCM                                                   *)
(***************************************************************************)
Untampered == dec # NoCall /\ dec.tamper[1] = "none"
OneBitFlipped == dec # NoCall /\ dec.tamper[1] \in {"ciphertext", "aad", "tag"}
Bound == key # <<>> /\ Len(iv_) = GCM_IV_SIZE

\* C2: under a set key and a 12-byte IV, decryptAndVerify on the ciphertext, the
\* AAD and the 16-byte tag that encryptAndAuthenticate produced returns true and
\* writes the plaintext that was encrypted, whatever the lengths of the plaintext
\* and of the AAD
C2_AuthenticatedRoundTrip ==
    (Untampered /\ Bound /\ enc.tagLen = SM4_BLOCK_SIZE)
        => (dec.ret /\ dec.plaintext = enc.plaintext)

\* a round trip of a message that ends in a partial block, with a non-empty AAD
C2_Witness ==
    /\ Untampered
    /\ Bound
    /\ enc.tagLen = SM4_BLOCK_SIZE
    /\ Len(enc.plaintext) = MaxMsgLen
    /\ Len(enc.aad) = MaxAadLen
    /\ dec.ret
    /\ dec.plaintext = enc.plaintext
    /\ enc.ciphertext # enc.plaintext

\* C3: under a set key and a 12-byte IV, decryptAndVerify returns false when exactly
\* one bit of the produced ciphertext, of the AAD or of the 16-byte tag was inverted
C3_TamperDetected ==
    (OneBitFlipped /\ Bound /\ dec.tagLen = SM4_BLOCK_SIZE) => ~dec.ret

\* C7: once setIV was called with a length other than 12, no encryptAndAuthenticate
\* returns a ciphertext and a tag, and no decryptAndVerify computes a plaintext and
\* an expected tag, from that IV
C7_IvMisuseGuard ==
    (iv_ # <<>> /\ Len(iv_) # GCM_IV_SIZE)
        => /\ enc # NoCall => ~enc.ret
           /\ dec # NoCall => (~dec.ret /\ dec.expected_tag = <<>>)

\* C10: decryptAndVerify returns true exactly when tagLen <= 16 and the tagLen
\* supplied tag bytes equal the first tagLen bytes of the tag computed from the
\* object's round keys, h_ and j0_, the given AAD and the given ciphertext
C10_AcceptanceIsTagEquality ==
    dec # NoCall
        => (dec.ret <=>
              /\ dec.tagLen <= SM4_BLOCK_SIZE
              /\ SubSeq(dec.tag, 1, dec.tagLen)
                   = SubSeq(compute_tag(dec.aad, dec.ciphertext, rk_, h_, j0_),
                            1, dec.tagLen))

\* a tag whose last compared byte differs from the recomputed one is rejected
C10_Witness ==
    /\ dec # NoCall
    /\ dec.tamper[1] = "tag"
    /\ dec.tamper[2] = dec.tagLen
    /\ dec.tagLen = SM4_BLOCK_SIZE
    /\ ~dec.ret

\* the 16-byte blocks that ghash xors into temp_hash for data: the complete
\* blocks, and last_block when bytes remain
hashed_blocks(data) ==
    {[j \in 1..SM4_BLOCK_SIZE |->
         IF i * SM4_BLOCK_SIZE + j <= Len(data) THEN data[i * SM4_BLOCK_SIZE + j] ELSE 0] :
       i \in 0..((Len(data) + SM4_BLOCK_SIZE - 1) \div SM4_BLOCK_SIZE - 1)}

\* C11: gcmMultiply is the product of GF(2^128), so it is linear over XOR in its
\* first operand: for the blocks a and c that encryptAndAuthenticate has hashed
\* and the hash subkey h_, gcmMultiply(a ^ c, h_) = gcmMultiply(a, h_) ^
\* gcmMultiply(c, h_)
C11_FieldMultiplyLinear ==
    (enc # NoCall /\ enc.ret)
        => \A a, c \in hashed_blocks(ghash_input(enc.aad, enc.ciphertext)) :
              gcmMultiply(XorBytes(a, c), h_)
                = XorBytes(gcmMultiply(a, h_), gcmMultiply(c, h_))

\* data followed by the zero bytes that fill its last 16-byte block
zero_padded(data) ==
    data \o [j \in 1..((SM4_BLOCK_SIZE - (Len(data) % SM4_BLOCK_SIZE)) % SM4_BLOCK_SIZE) |-> 0]

\* the bit length of len bytes as a 64-bit big-endian value
be_bit_length(len) ==
    LET v == len * 8
    IN  <<0, 0, 0, 0, (v \div 16777216) % 256, (v \div 65536) % 256, (v \div 256) % 256,
          v % 256>>

\* the authenticator input: padded AAD, padded ciphertext, the block of lengths
padded_layout(aad, ct) ==
    zero_padded(aad) \o zero_padded(ct) \o be_bit_length(Len(aad)) \o be_bit_length(Len(ct))

\* the accumulator behind a tag: tag[j] = encrypted_j0[j] ^ ghash_result[j]
accumulator_of(tag) == XorBytes(tag, encryptBlock(j0_, rk_))

\* C12: the accumulator that encryptAndAuthenticate and decryptAndVerify compute is
\* the hash (each block xored in, then multiplied by h_) over the AAD zero-padded to
\* a multiple of 16 bytes, the ciphertext zero-padded to a multiple of 16 bytes, and
\* one block of the big-endian 64-bit bit lengths of the AAD and of the ciphertext
C12_AuthenticatorLayout ==
    /\ (enc # NoCall /\ enc.ret)
          => accumulator_of(enc.tag) = ghash(padded_layout(enc.aad, enc.ciphertext), h_)
    /\ (dec # NoCall /\ dec.expected_tag # <<>>)
          => accumulator_of(dec.expected_tag)
               = ghash(padded_layout(dec.aad, dec.ciphertext), h_)

\* the 32-bit big-endian value of n
be32(n) == <<(n \div 16777216) % 256, (n \div 65536) % 256, (n \div 256) % 256, n % 256>>

\* C13: with a key set and a 12-byte IV bound, encryptAndAuthenticate writes exactly
\* as many ciphertext bytes as the plaintext has, and byte k of the ciphertext is
\* byte k of the plaintext xored with byte k mod 16 of the block encryption of the
\* counter block iv_ || be32(floor(k / 16) + 1)
C13_CounterMode ==
    (enc # NoCall /\ enc.ret /\ Bound)
        => /\ Len(enc.ciphertext) = Len(enc.plaintext)
           /\ \A i \in 0..((Len(enc.plaintext) + SM4_BLOCK_SIZE - 1) \div SM4_BLOCK_SIZE - 1) :
                 LET E == encryptBlock(iv_ \o be32(i + 1), rk_)
                 IN  \A j \in 0..(SM4_BLOCK_SIZE - 1) :
                        LET k == i * SM4_BLOCK_SIZE + j
                        IN  k < Len(enc.plaintext)
                              => enc.ciphertext[k + 1] = XorB(enc.plaintext[k + 1], E[j + 1])

\* a plaintext of one block and a partial block was encrypted under two counters
C13_Witness ==
    /\ enc # NoCall
    /\ enc.ret
    /\ Bound
    /\ Len(enc.plaintext) = MaxMsgLen
    /\ Len(enc.ciphertext) = MaxMsgLen
    /\ SubSeq(enc.ciphertext, 1, SM4_BLOCK_SIZE) # SubSeq(enc.plaintext, 1, SM4_BLOCK_SIZE)

\* C15: an encryptAndAuthenticate or decryptAndVerify issued before setKey was
\* called, or before setIV was called, is rejected and produces no ciphertext, no
\* plaintext and no tag
C15_OperationOrder ==
    (key = <<>> \/ iv_ = <<>>)
        => /\ enc # NoCall => (~enc.ret /\ enc.ciphertext = <<>> /\ enc.tag = <<>>)
           /\ dec # NoCall => (~dec.ret /\ dec.plaintext = <<>> /\ dec.expected_tag = <<>>)

\* C16: a call of encryptAndAuthenticate or decryptAndVerify with tagLen > 16
\* returns false, writes no byte of the ciphertext, plaintext or tag buffers and
\* leaves every field of the object as it was
C16_OversizedTagRejected ==
    [][/\ (enc' # enc /\ enc' # NoCall /\ enc'.tagLen > SM4_BLOCK_SIZE)
             => /\ ~enc'.ret
                /\ enc'.ciphertext = <<>>
                /\ enc'.tag = <<>>
                /\ UNCHANGED <<rk_, iv_, h_, j0_>>
       /\ (dec' # dec /\ dec' # NoCall /\ dec'.tagLen > SM4_BLOCK_SIZE)
             => /\ ~dec'.ret
                /\ dec'.plaintext = <<>>
                /\ UNCHANGED <<rk_, iv_, h_, j0_>>]_vars

\* under a set key and a 12-byte IV, an encryptAndAuthenticate of a non-empty
\* plaintext with tagLen 17 has returned false
C16_Witness ==
    /\ Bound
    /\ enc # NoCall
    /\ enc.tagLen > SM4_BLOCK_SIZE
    /\ Len(enc.plaintext) = MaxMsgLen
    /\ ~enc.ret
    /\ enc.ciphertext = <<>>

\* C18: once setKey was called, h_ is the block encryption of the all-zero block
\* under the key set last, after every setKey, setIV, encryptAndAuthenticate and
\* decryptAndVerify; and only a setKey step changes h_
C18_HashSubkeyInvariant ==
    /\ [](key # <<>> => h_ = encryptBlock(ZeroBlock, keyExpansion(key)))
    /\ [][h_' # h_ => \E k \in Keys : SetKey(k)]_vars

\* a message was encrypted and decrypted under the second key and a 12-byte IV,
\* and h_ is the subkey of that key
C18_Witness ==
    /\ key = KeyOf(NumKeys)
    /\ Bound
    /\ enc # NoCall
    /\ enc.ret
    /\ dec # NoCall
    /\ h_ = encryptBlock(ZeroBlock, keyExpansion(key))
    /\ h_ # ZeroBlock

\* Encrypt(J0) ^ accumulator for J0 = iv_ || 00 00 00 01 and the accumulator
\* ghash computes over the AAD, the ciphertext and the lengths
tag_formula(aad, ct) ==
    XorBytes(encryptBlock(iv_ \o <<0, 0, 0, 1>>, rk_), ghash(ghash_input(aad, ct), h_))

\* C19: with a 12-byte IV bound, the 16 tag bytes that encryptAndAuthenticate
\* writes, and the expected tag that decryptAndVerify recomputes, are the block
\* encryption of J0 = IV || 00 00 00 01 xored with the hash result over the AAD,
\* the ciphertext and the lengths
C19_TagFormula ==
    Len(iv_) = GCM_IV_SIZE
        => /\ (enc # NoCall /\ enc.ret) => enc.tag = tag_formula(enc.aad, enc.ciphertext)
           /\ (dec # NoCall /\ dec.tagLen <= SM4_BLOCK_SIZE)
                 => dec.expected_tag = tag_formula(dec.aad, dec.ciphertext)

\* a message with AAD was encrypted and decrypted under a set key and a 12-byte
\* IV, and both calls computed the same tag
C19_Witness ==
    /\ Bound
    /\ enc # NoCall
    /\ enc.ret
    /\ Len(enc.plaintext) = MaxMsgLen
    /\ Len(enc.aad) = MaxAadLen
    /\ Untampered
    /\ dec.expected_tag = enc.tag
    /\ enc.tag = tag_formula(enc.aad, enc.ciphertext)

\* block b (from 1) of a message buffer
BlockOfMessage(buf, b) == SubSeq(buf, SM4_BLOCK_SIZE * (b - 1) + 1, SM4_BLOCK_SIZE * b)

\* C24: for every tagLen <= 16, encryptAndAuthenticate writes tagLen bytes of the
\* tag buffer, the first tagLen bytes of the tag, and no byte at an index >= tagLen
\* (enc.tag holds the bytes of the tag buffer that the call wrote)
C24_TagTruncation ==
    (enc # NoCall /\ enc.ret)
        => /\ Len(enc.tag) = enc.tagLen
           /\ enc.tag = SubSeq(compute_tag(enc.aad, enc.ciphertext, rk_, h_, j0_),
                               1, enc.tagLen)

\* the counter blocks that the loop of encryptAndAuthenticate encrypts for a
\* plaintext of len bytes under a 12-byte IV: counter i + 1 for the complete
\* blocks i = 0..num_blocks - 1, and num_blocks + 1 for the remaining bytes
counter_blocks(len) ==
    [b \in 1..((len + SM4_BLOCK_SIZE - 1) \div SM4_BLOCK_SIZE) |->
        generateCounterBlock((b - 1) + 1, iv_, 0)]

\* C25: once encryptAndAuthenticate has succeeded under a set key and a 12-byte
\* IV, a further encryptAndAuthenticate on the same object under the same key and
\* the same IV (no setKey and no setIV in between) is rejected
C25_NonceSingleUse ==
    [][(/\ Bound
        /\ enc # NoCall
        /\ enc.ret
        /\ enc' # NoCall
        /\ enc' # enc
        /\ key' = key
        /\ iv_' = iv_) => ~enc'.ret]_vars

\* C27: within one message under a set key and a 12-byte IV, the counter blocks
\* that encryptAndAuthenticate encrypts are pairwise distinct and none of them is
\* j0_, the block encrypted to mask the tag; no keystream block (ciphertext block
\* xor plaintext block) is the encryption of j0_
C27_CounterBlockDistinctness ==
    (enc # NoCall /\ enc.ret /\ Bound)
        => LET blocks == counter_blocks(Len(enc.plaintext))
           IN  /\ \A a, b \in 1..Len(blocks) : a # b => blocks[a] # blocks[b]
               /\ \A b \in 1..Len(blocks) : blocks[b] # j0_
               /\ \A b \in 1..(Len(enc.plaintext) \div SM4_BLOCK_SIZE) :
                     XorBytes(BlockOfMessage(enc.ciphertext, b),
                              BlockOfMessage(enc.plaintext, b)) # encryptBlock(j0_, rk_)

\* C28: decryptAndVerify does not return true when tagLen = 0
C28_EmptyTagNeverAccepted ==
    (dec # NoCall /\ dec.tagLen = 0) => ~dec.ret

\* the fields of the object that setKey writes, and those that setIV writes
key_part == <<rk_, h_>>
iv_part == <<iv_, j0_>>

\* C30: a step that changes the round keys or h_ is a setKey and leaves iv_ and
\* j0_; a step that changes iv_ or j0_ is a setIV and leaves the round keys and
\* h_; a step in which encryptAndAuthenticate or decryptAndVerify is called
\* leaves all four.  The state reached by setKey and setIV in either order is the
\* same: the key part is a function of the last key, the IV part of the last IV.
\* Once setKey and setIV were called, an encryptAndAuthenticate repeated with the
\* same arguments writes the same outputs, and the plaintext that
\* decryptAndVerify writes is the one every execution of the same call writes
C30_OperationFrame ==
    /\ [][/\ key_part' # key_part
               => (UNCHANGED <<iv_part, enc, dec>> /\ \E k \in Keys : SetKey(k))
          /\ iv_part' # iv_part
               => (UNCHANGED <<key_part, enc, dec>> /\ \E iv \in IVs12 \cup IVsOther : SetIV(iv))
          /\ (enc' # enc \/ dec' # dec) => UNCHANGED <<key_part, iv_part>>]_vars
    /\ [](/\ key # <<>> => key_part = <<keyExpansion(key),
                                        encryptBlock(ZeroBlock, keyExpansion(key))>>
          /\ iv_ # <<>> => j0_ = IF Len(iv_) = GCM_IV_SIZE THEN iv_ \o <<0, 0, 0, 1>>
                                 ELSE ZeroBlock)
    /\ [][(/\ key # <<>>
           /\ iv_ # <<>>
           /\ enc # NoCall
           /\ enc' # NoCall
           /\ enc'.plaintext = enc.plaintext
           /\ enc'.aad = enc.aad
           /\ enc'.tagLen = enc.tagLen) => enc' = enc]_vars
    /\ []((key # <<>> /\ iv_ # <<>> /\ dec # NoCall /\ dec.tagLen <= SM4_BLOCK_SIZE)
            => \A uninit \in UninitChoices :
                  dec.plaintext = decrypt_ctr(dec.ciphertext, rk_, iv_, uninit))

(***************************************************************************)
(* The block engines on one key and one block: the calls of SM4Ttable.cpp's *)
(* main, and the same calls on a stand-alone SM4 object                    *)
(***************************************************************************)
IdleGcm ==
    /\ iv_ = <<>>
    /\ h_ = ZeroBlock
    /\ j0_ = ZeroBlock
    /\ key = <<>>
    /\ cerr = FALSE
    /\ enc = NoCall
    /\ dec = NoCall

InitBlock ==
    /\ secret_key \in Keys
    /\ plaintext \in Blocks
    /\ round_keys = <<>>
    /\ ciphertext = <<>>
    /\ decrypted = <<>>
    /\ rk_ \in UninitRk
    /\ sm4_out = <<>>
    /\ sm4_dec = <<>>
    /\ IdleGcm
    /\ IdlePar

GenerateRoundKeys ==
    /\ round_keys = <<>>
    /\ round_keys' = generate_round_keys(secret_key)
    /\ UNCHANGED <<secret_key, plaintext, ciphertext, decrypted, sm4_out, sm4_dec, rk_,
                   gcmVars, parVars>>

BlockEncrypt ==
    /\ round_keys # <<>>
    /\ ciphertext = <<>>
    /\ ciphertext' = sm4_block_encrypt(plaintext, round_keys)
    /\ UNCHANGED <<secret_key, plaintext, round_keys, decrypted, sm4_out, sm4_dec, rk_,
                   gcmVars, parVars>>

BlockDecrypt ==
    /\ ciphertext # <<>>
    /\ decrypted = <<>>
    /\ decrypted' = sm4_block_decrypt(ciphertext, round_keys)
    /\ UNCHANGED <<secret_key, plaintext, round_keys, ciphertext, sm4_out, sm4_dec, rk_,
                   gcmVars, parVars>>

\* SM4::setKey(secret_key), before any block is encrypted
SM4SetKey ==
    /\ sm4_out = <<>>
    /\ rk_ \in UninitRk
    /\ rk_' = keyExpansion(secret_key)
    /\ UNCHANGED <<secret_key, plaintext, round_keys, ciphertext, decrypted, sm4_out,
                   sm4_dec, gcmVars, parVars>>

SM4EncryptBlock ==
    /\ sm4_out = <<>>
    /\ sm4_out' = encryptBlock(plaintext, rk_)
    /\ UNCHANGED <<secret_key, plaintext, round_keys, ciphertext, decrypted, sm4_dec, rk_,
                   gcmVars, parVars>>

SM4DecryptBlock ==
    /\ sm4_out # <<>>
    /\ sm4_dec = <<>>
    /\ sm4_dec' = decryptBlock(sm4_out, rk_)
    /\ UNCHANGED <<secret_key, plaintext, round_keys, ciphertext, decrypted, sm4_out, rk_,
                   gcmVars, parVars>>

NextBlock ==
    \/ GenerateRoundKeys
    \/ BlockEncrypt
    \/ BlockDecrypt
    \/ SM4SetKey
    \/ SM4EncryptBlock
    \/ SM4DecryptBlock

SpecBlock == InitBlock /\ [][NextBlock]_vars

(***************************************************************************)
(* Properties of the block engines                                         *)
(***************************************************************************)
\* C1: decrypting the encryption of a block returns the block, for the scalar
\* engine under generate_round_keys' round keys and for class SM4 after setKey
C1_BlockRoundTrip ==
    /\ decrypted # <<>> => decrypted = plaintext
    /\ (sm4_dec # <<>> /\ rk_ \notin UninitRk) => sm4_dec = plaintext

\* both engines have encrypted and decrypted the block, and the ciphertexts differ
\* from the block
C1_Witness ==
    /\ decrypted = plaintext
    /\ ciphertext # plaintext
    /\ rk_ \notin UninitRk
    /\ sm4_dec = plaintext
    /\ sm4_out # plaintext

\* the two digits that std::hex << std::setw(2) << std::setfill('0') prints for each
\* byte, as digit values
hex_digits(bytes) ==
    [j \in 1..(2 * Len(bytes)) |->
        IF j % 2 = 1 THEN bytes[(j + 1) \div 2] \div 16 ELSE bytes[j \div 2] % 16]

KnownVectorRun == secret_key = StdKey /\ plaintext = StdKey /\ ciphertext # <<>>

\* C6 as written: the ciphertext of the known vector reads 681EDF34D206965E86B3E94F536E424
C6_KnownVectorAsWritten ==
    KnownVectorRun
        => hex_digits(ciphertext)
             = <<6, 8, 1, 14, 13, 15, 3, 4, 13, 2, 0, 6, 9, 6, 5, 14,
                 8, 6, 11, 3, 14, 9, 4, 15, 5, 3, 6, 14, 4, 2, 4>>

\* C6: the ciphertext of the known vector reads 681EDF34D206965E86B3E94F536E4246,
\* the 32 digits of the published vector
C6_KnownVector ==
    KnownVectorRun
        => hex_digits(ciphertext)
             = <<6, 8, 1, 14, 13, 15, 3, 4, 13, 2, 0, 6, 9, 6, 5, 14,
                 8, 6, 11, 3, 14, 9, 4, 15, 5, 3, 6, 14, 4, 2, 4, 6>>

C6_Witness == KnownVectorRun /\ Len(hex_digits(ciphertext)) = 2 * SM4_BLOCK_SIZE


(***************************************************************************)
(* namespace SM4Core (part_001): the round tables and the key schedule of  *)
(* the vector engine                                                       *)
(***************************************************************************)
\* constexpr uint8_t SBOX[256] has 16 initializers: the other entries are 0
SBOX ==
    <<214, 144, 233, 254, 204, 225, 61, 183, 22, 182, 20, 194, 40, 251, 44, 5>>
        \o [b \in 1..240 |-> 0]

RotateLeft(x, n) == OrW(ShlW(x, n), ShrW(x, 32 - n))

SboxSubstitution(a) ==
    <<SBOX[a[1] + 1], SBOX[a[2] + 1], SBOX[a[3] + 1], SBOX[a[4] + 1]>>

LinearTransform(b) ==
    XorW(XorW(XorW(XorW(b, RotateLeft(b, 2)), RotateLeft(b, 10)), RotateLeft(b, 18)),
         RotateLeft(b, 24))

CompositeTransform(x) == LinearTransform(SboxSubstitution(x))

\* the tables GenerateLookupTables leaves: entry i is built from the word i << 24,
\* all four bytes of which SboxSubstitution replaces
GenerateLookupTables ==
    LET t0 == [b \in 1..256 |-> LinearTransform(SboxSubstitution(<<b - 1, 0, 0, 0>>))]
    IN  [T0 |-> t0,
         T1 |-> [b \in 1..256 |-> RotateLeft(t0[b], 8)],
         T2 |-> [b \in 1..256 |-> RotateLeft(t0[b], 16)],
         T3 |-> [b \in 1..256 |-> RotateLeft(t0[b], 24)]]

\* KeyExpansion's local FK
FK == <<<<163, 177, 186, 198>>, <<86, 170, 51, 80>>, <<103, 125, 145, 151>>,
        <<178, 112, 34, 220>>>>

\* KeyExpansion's local CK[32] has 4 initializers: the other entries are 0
CK ==
    <<<<0, 7, 14, 21>>, <<28, 35, 42, 49>>, <<56, 63, 70, 77>>, <<84, 91, 98, 105>>>>
        \o [r \in 1..28 |-> ZeroWord]

\* the loop filling K[4..35]
RECURSIVE K_fill(_, _)
K_fill(K, r) ==
    IF r = 32 THEN K
    ELSE LET tmp == CompositeTransform(
                        XorW(XorW(XorW(K[r + 2], K[r + 3]), K[r + 4]), CK[r + 1]))
             next == Append(K, XorW(K[r + 1], tmp))
         IN  IF Computed(next) THEN K_fill(next, r + 1) ELSE next

KeyExpansion(MK) ==
    LET K == K_fill(<<XorW(BEWord(MK, 0), FK[1]), XorW(BEWord(MK, 1), FK[2]),
                      XorW(BEWord(MK, 2), FK[3]), XorW(BEWord(MK, 3), FK[4])>>, 0)
    IN  SubSeq(K, 5, 36)

(***************************************************************************)
(* namespace SM4SIMD (part_001).  A __m256i is the tuple of its eight      *)
(* 32-bit lanes.                                                           *)
(***************************************************************************)
\* the register whose lane l holds f[l]
Lanes(f) == <<f[1], f[2], f[3], f[4], f[5], f[6], f[7], f[8]>>

mm256_set1_epi32(a) == Lanes([l \in 1..8 |-> a])
mm256_xor_si256(a, b) == Lanes([l \in 1..8 |-> XorW(a[l], b[l])])
\* _mm256_and_si256(_mm256_srli_epi32(x, 24 - 8 * k), MASK): byte k + 1 of every lane
mm256_byte(x, k) == Lanes([l \in 1..8 |-> x[l][k + 1]])
\* a gather that reads the table at the index of the first lane for every lane
mm256_i32gather_epi32_first_lane(table, idx) == Lanes([l \in 1..8 |-> table[idx[1] + 1]])

\* _mm256_i32gather_epi32(table.data(), idx, 4)
mm256_i32gather_epi32(table, idx) == Lanes([l \in 1..8 |-> table[idx[l] + 1]])

TransformAVX(x) ==
    LET i0 == mm256_byte(x, 0)
        i1 == mm256_byte(x, 1)
        i2 == mm256_byte(x, 2)
        i3 == mm256_byte(x, 3)
        v0 == mm256_i32gather_epi32(T0, i0)
        v1 == mm256_i32gather_epi32(T1, i1)
        v2 == mm256_i32gather_epi32(T2, i2)
        v3 == mm256_i32gather_epi32(T3, i3)
    IN  mm256_xor_si256(mm256_xor_si256(v0, v1), mm256_xor_si256(v2, v3))

\* the 32 rounds of ParallelEncrypt on the registers X[0..3]
RECURSIVE ParallelRounds(_, _, _)
ParallelRounds(X, rks, r) ==
    IF r = 32 THEN X
    ELSE LET rk == mm256_set1_epi32(rks[r + 1])
             tmp == mm256_xor_si256(mm256_xor_si256(X[2], X[3]),
                                    mm256_xor_si256(X[4], rk))
             Xn == mm256_xor_si256(X[1], TransformAVX(tmp))
         IN  IF Computed(Xn) THEN ParallelRounds(<<X[2], X[3], X[4], Xn>>, rks, r + 1)
             ELSE X

\* input: eight 16-byte blocks; the value is the eight blocks written to output
ParallelEncrypt(input, rks) ==
    LET Load(w) == Lanes([b \in 1..8 |-> BEWord(input[b], w)])
        X == ParallelRounds(<<Load(0), Load(1), Load(2), Load(3)>>, rks, 0)
    IN  Lanes([b \in 1..8 |-> X[4][b] \o X[3][b] \o X[2][b] \o X[1][b]])

(***************************************************************************)
(* namespace ParallelExecutor (part_001) and main                          *)
(***************************************************************************)
\* reinterpret_cast<const uint8_t(*)[16]>(buf + at): the eight blocks from byte at
BatchAt(buf, at) == Lanes([b \in 1..8 |-> SubSeq(buf, at + 16 * (b - 1) + 1, at + 16 * b)])

\* buf after eight blocks were written from byte at
WriteBatch(buf, at, out) ==
    SubSeq(buf, 1, at)
        \o out[1] \o out[2] \o out[3] \o out[4] \o out[5] \o out[6] \o out[7] \o out[8]
        \o SubSeq(buf, at + 8 * 16 + 1, Len(buf))

\* iteration i of EncryptionTask(input, output, roundKeys, batchCount), the two
\* pointers given as byte offsets into plainData and into the buffer out
EncryptionTaskBatch(input, output, i, out) ==
    WriteBatch(out, output + i * 8 * 16,
               ParallelEncrypt(BatchAt(plainData, input + i * 8 * 16), roundKeys))

\* the iterations i, .., batchCount - 1 of EncryptionTask, run without interruption
RECURSIVE EncryptionTask(_, _, _, _, _)
EncryptionTask(input, output, batchCount, i, out) ==
    IF i >= batchCount THEN out
    ELSE LET next == EncryptionTaskBatch(input, output, i, out)
         IN  IF Computed(next) THEN EncryptionTask(input, output, batchCount, i + 1, next)
             ELSE out

Max(a, b) == IF a > b THEN a ELSE b

totalBatches == totalBlocks \div batchSize
batchesPerThread == totalBatches \div threadCount
remaining == totalBatches % threadCount

\* std::vector<uint8_t> cipherData(totalBlocks * 16)
ZeroBuffer(n) == [j \in 1..n |-> 0]

InitPar ==
    /\ secret_key \in Keys
    /\ totalBlocks \in BlockCounts
    /\ plainData \in PlainBuffers(totalBlocks)
    /\ cipherData = ZeroBuffer(totalBlocks * 16)
    /\ T0 = ZeroTable
    /\ T1 = ZeroTable
    /\ T2 = ZeroTable
    /\ T3 = ZeroTable
    /\ roundKeys = <<>>
    /\ batchSize = 8
    /\ threadCount = 1
    /\ thread_i = 0
    /\ offset = 0
    /\ workers = <<>>
    /\ joined = 0
    /\ pc = "GenerateLookupTables"
    /\ plaintext = <<>>
    /\ round_keys = <<>>
    /\ ciphertext = <<>>
    /\ decrypted = <<>>
    /\ sm4_out = <<>>
    /\ sm4_dec = <<>>
    /\ rk_ = [r \in 1..32 |-> ZeroWord]
    /\ IdleGcm

\* a main that goes on without the call of GenerateLookupTables
MainGenerateLookupTables_skipped ==
    /\ pc = "GenerateLookupTables"
    /\ pc' = "KeyExpansion"
    /\ UNCHANGED <<tableVars, roundKeys, plainData, cipherData, totalBlocks, batchSize,
                   threadCount, thread_i, offset, workers, joined, rk_, gcmVars, blockVars>>

\* main: SM4Core::GenerateLookupTables();
MainGenerateLookupTables ==
    /\ pc = "GenerateLookupTables"
    /\ T0' = GenerateLookupTables.T0
    /\ T1' = GenerateLookupTables.T1
    /\ T2' = GenerateLookupTables.T2
    /\ T3' = GenerateLookupTables.T3
    /\ pc' = "KeyExpansion"
    /\ UNCHANGED <<roundKeys, plainData, cipherData, totalBlocks, batchSize, threadCount,
                   thread_i, offset, workers, joined, rk_, gcmVars, blockVars>>

\* main: auto roundKeys = SM4Core::KeyExpansion(key);
MainKeyExpansion ==
    /\ pc = "KeyExpansion"
    /\ roundKeys' = KeyExpansion(secret_key)
    /\ pc' = "ExecuteParallel"
    /\ UNCHANGED <<tableVars, plainData, cipherData, totalBlocks, batchSize, threadCount,
                   thread_i, offset, workers, joined, rk_, gcmVars, blockVars>>

\* the call of ExecuteParallel, up to the loop that starts the workers
ExecuteParallel(hardware_concurrency, size) ==
    /\ pc = "ExecuteParallel"
    /\ batchSize' = size
    /\ threadCount' = Max(1, hardware_concurrency)
    /\ thread_i' = 0
    /\ offset' = 0
    /\ workers' = <<>>
    /\ joined' = 0
    /\ pc' = "start"
    /\ UNCHANGED <<tableVars, roundKeys, plainData, cipherData, totalBlocks, rk_, gcmVars,
                   blockVars>>

\* a loop iteration that advances offset by batchesPerThread, without the extra
\* batch of the first `remaining` workers
StartWorker_equal_shares ==
    /\ pc = "start"
    /\ LET count == batchesPerThread + (IF thread_i < remaining THEN 1 ELSE 0)
       IN  IF count = 0
           THEN UNCHANGED <<workers, offset>>
           ELSE /\ workers' = Append(workers, [input |-> offset * batchSize * 16,
                                               output |-> offset * batchSize * 16,
                                               batchCount |-> count,
                                               i |-> 0])
                /\ offset' = offset + batchesPerThread
    /\ thread_i' = thread_i + 1
    /\ pc' = IF thread_i + 1 < threadCount THEN "start" ELSE "join"
    /\ UNCHANGED <<tableVars, roundKeys, plainData, cipherData, totalBlocks, batchSize,
                   threadCount, joined, rk_, gcmVars, blockVars>>

\* one iteration of the loop that starts the workers
StartWorker ==
    /\ pc = "start"
    /\ LET count == batchesPerThread + (IF thread_i < remaining THEN 1 ELSE 0)
       IN  IF count = 0
           THEN UNCHANGED <<workers, offset>>
           ELSE /\ workers' = Append(workers, [input |-> offset * batchSize * 16,
                                               output |-> offset * batchSize * 16,
                                               batchCount |-> count,
                                               i |-> 0])
                /\ offset' = offset + count
    /\ thread_i' = thread_i + 1
    /\ pc' = IF thread_i + 1 < threadCount THEN "start" ELSE "join"
    /\ UNCHANGED <<tableVars, roundKeys, plainData, cipherData, totalBlocks, batchSize,
                   threadCount, joined, rk_, gcmVars, blockVars>>

\* worker w runs one iteration of EncryptionTask's loop
WorkerBatch(w) ==
    /\ pc \in {"start", "join"}
    /\ workers[w].i < workers[w].batchCount
    /\ cipherData' = EncryptionTaskBatch(workers[w].input, workers[w].output,
                                         workers[w].i, cipherData)
    /\ workers' = [workers EXCEPT ![w].i = @ + 1]
    /\ UNCHANGED <<tableVars, roundKeys, plainData, totalBlocks, batchSize, threadCount,
                   thread_i, offset, joined, pc, rk_, gcmVars, blockVars>>

\* t.join() returns for the next worker, which has left EncryptionTask
JoinWorker ==
    /\ pc = "join"
    /\ joined < Len(workers)
    /\ workers[joined + 1].i = workers[joined + 1].batchCount
    /\ joined' = joined + 1
    /\ UNCHANGED <<tableVars, roundKeys, plainData, cipherData, totalBlocks, batchSize,
                   threadCount, thread_i, offset, workers, pc, rk_, gcmVars, blockVars>>

\* a return that does not wait for the workers
Return_without_join ==
    /\ pc = "join"
    /\ pc' = "done"
    /\ UNCHANGED <<tableVars, roundKeys, plainData, cipherData, totalBlocks, batchSize,
                   threadCount, thread_i, offset, workers, joined, rk_, gcmVars, blockVars>>

\* ExecuteParallel returns
Return ==
    /\ pc = "join"
    /\ joined = Len(workers)
    /\ pc' = "done"
    /\ UNCHANGED <<tableVars, roundKeys, plainData, cipherData, totalBlocks, batchSize,
                   threadCount, thread_i, offset, workers, joined, rk_, gcmVars, blockVars>>

NextPar ==
    \/ MainGenerateLookupTables
    \/ MainKeyExpansion
    \/ \E hardware_concurrency \in HardwareConcurrency, size \in BatchSizes :
          ExecuteParallel(hardware_concurrency, size)
    \/ StartWorker
    \/ \E w \in 1..Len(workers) : WorkerBatch(w)
    \/ JoinWorker
    \/ Return

SpecPar == InitPar /\ [][NextPar]_vars

\* the step of a worker as seen on the loop indices of the workers: some worker
\* inside EncryptionTask's loop finishes an iteration
WorkerProgress ==
    \E w \in 1..Len(workers) :
        /\ pc \in {"start", "join"}
        /\ workers[w].i < workers[w].batchCount
        /\ workers' = [workers EXCEPT ![w].i = @ + 1]

\* The threads are scheduled: ExecuteParallel goes on with its loops and returns
\* when it can, and while a started worker has iterations left some worker
\* finishes one (ParallelEncrypt has no loop that depends on data and no wait)
SpecParFair ==
    /\ SpecPar
    /\ WF_vars(StartWorker)
    /\ WF_vars(JoinWorker)
    /\ WF_vars(Return)
    /\ WF_workers(WorkerProgress)

(***************************************************************************)
(* Properties of the vector engine and of ExecuteParallel                  *)
(***************************************************************************)
TablesGenerated == pc \notin {"idle", "GenerateLookupTables"}

\* round inputs: all words with bytes among 0, 1, 2, 3, 4 and 255
RoundInputs == {<<b0, b1, b2, b3>> : b0, b1, b2, b3 \in {0, 1, 2, 3, 4, 255}}

\* what one lane of TransformAVX computes for the round input x
TableRound(x) == TransformAVX(mm256_set1_epi32(x))[1]

\* C4: after GenerateLookupTables, T0[b0] ^ T1[b1] ^ T2[b2] ^ T3[b3] equals
\* CompositeTransform(x) = L(tau(x)) for every round input x
C4_FusedTableEquivalence ==
    TablesGenerated => \A x \in RoundInputs : TableRound(x) = CompositeTransform(x)

\* block number b (from 0) of a buffer
BlockOfBuffer(buf, b) == SubSeq(buf, 16 * b + 1, 16 * b + 16)

\* C5: every block that ParallelEncrypt has written is what sm4_block_encrypt
\* produces for the input block of the same lane under the same round keys
C5_VectorBatchEquivalence ==
    \A w \in 1..Len(workers) :
        workers[w].i > 0
            => \A lane \in 0..7 :
                  BlockOfBuffer(cipherData, (workers[w].output \div 16) + lane)
                    = sm4_block_encrypt(
                          BlockOfBuffer(plainData, (workers[w].input \div 16) + lane),
                          roundKeys)

\* C8: when ExecuteParallel has returned, the output buffer is the one a single
\* worker running all the batches leaves (threadCount = 1), whatever the worker
\* count, the assignment of the batches and the interleaving were
C8_SchedulerDeterminism ==
    pc = "done"
        => cipherData = EncryptionTask(0, 0, totalBatches, 0, ZeroBuffer(totalBlocks * 16))

\* the same with the default batchSize, for which it holds
DeterminismAtDefaultBatchSize ==
    (pc = "done" /\ batchSize = 8)
        => cipherData = EncryptionTask(0, 0, totalBatches, 0, ZeroBuffer(totalBlocks * 16))

\* the encryption of one block by the vector engine: any lane of a batch of copies
EngineBlock(blk) == ParallelEncrypt(mm256_set1_epi32(blk), roundKeys)[1]

\* C9: when ExecuteParallel (batchSize 8) has returned, every output block below
\* totalBlocks holds the encryption of the input block, the blocks of the tail of
\* totalBlocks % 8 blocks included
C9_TailHandling ==
    (pc = "done" /\ batchSize = 8)
        => \A b \in 0..(totalBlocks - 1) :
              BlockOfBuffer(cipherData, b) = EngineBlock(BlockOfBuffer(plainData, b))

\* the batch range [first, last) of worker w: its output pointer in batches of
\* 8 blocks of 16 bytes, and the batchCount batches that EncryptionTask writes
first_batch(w) == workers[w].output \div (8 * 16)
last_batch(w) == first_batch(w) + workers[w].batchCount

\* C20: for batchSize = 8, the batch ranges handed to the workers are non-empty,
\* start at batch 0, each range begins where the one before ends (so they are
\* pairwise disjoint), input and output ranges coincide, no worker writes outside
\* the output buffer, and once all workers are started the ranges cover
\* [0, totalBlocks / 8) exactly
C20_WorkerPartition ==
    (batchSize = 8 /\ pc \in {"start", "join", "done"})
        => /\ \A w \in 1..Len(workers) :
                 /\ workers[w].output % (8 * 16) = 0
                 /\ workers[w].input = workers[w].output
                 /\ workers[w].batchCount > 0
                 /\ first_batch(w) = IF w = 1 THEN 0 ELSE last_batch(w - 1)
                 /\ last_batch(w) * 8 * 16 <= Len(cipherData)
                 /\ \A v \in 1..Len(workers) :
                       v < w => last_batch(v) <= first_batch(w)
           /\ pc \in {"join", "done"}
                 => (totalBlocks \div 8)
                      = IF workers = <<>> THEN 0 ELSE last_batch(Len(workers))

\* ExecuteParallel has returned after three workers shared four batches
C20_Witness ==
    /\ pc = "done"
    /\ batchSize = 8
    /\ Len(workers) = MaxThreads
    /\ totalBlocks = MaxBlocks
    /\ last_batch(1) - first_batch(1) > last_batch(MaxThreads) - first_batch(MaxThreads)
    /\ \A w \in 1..Len(workers) : workers[w].i = workers[w].batchCount

\* C21: when ExecuteParallel has returned, every worker it started was joined and
\* has written all the batches it was given; and every call of ExecuteParallel
\* returns
C21_JoinBeforeReturn ==
    /\ [](pc = "done"
            => /\ joined = Len(workers)
               /\ \A w \in 1..Len(workers) : workers[w].i = workers[w].batchCount)
    /\ (pc = "start" ~> pc = "done")

\* ExecuteParallel has returned from a call with more threads than batches: fewer
\* workers than threadCount were started, and they have written their batches
C21_Witness ==
    /\ pc = "done"
    /\ batchSize = 8
    /\ totalBlocks \div 8 < threadCount
    /\ Len(workers) = totalBlocks \div 8
    /\ Len(workers) > 1
    /\ joined = Len(workers)
    /\ \A w \in 1..Len(workers) : workers[w].i = workers[w].batchCount
    /\ cipherData # ZeroBuffer(totalBlocks * 16)

\* T0..T3 hold what GenerateLookupTables writes
TablesWritten ==
    LET tables == GenerateLookupTables
    IN  T0 = tables.T0 /\ T1 = tables.T1 /\ T2 = tables.T2 /\ T3 = tables.T3

C23_TableConstruction ==
    TablesGenerated
        => \A b \in 0..255 :
              /\ T0[b + 1] = linear_transform(<<SM4_SBOX[b + 1], 0, 0, 0>>)
              /\ T1[b + 1] = rotate_left(T0[b + 1], 8)
              /\ T2[b + 1] = rotate_left(T0[b + 1], 16)
              /\ T3[b + 1] = rotate_left(T0[b + 1], 24)

\* the batch that worker w encrypted last: the eight input blocks of iteration
\* workers[w].i - 1 of its EncryptionTask
last_input(w) == BatchAt(plainData, workers[w].input + (workers[w].i - 1) * 8 * 16)

\* the block that the worker's last call of ParallelEncrypt wrote for a lane
last_output(w, lane) ==
    BlockOfBuffer(cipherData,
                  (workers[w].output \div 16) + (workers[w].i - 1) * 8 + (lane - 1))

\* blk with every bit inverted
other_block(blk) == [k \in 1..16 |-> 255 - blk[k]]

\* the batch that agrees with batch on the block of lane and differs from it in
\* every bit of the seven other blocks
other_batch(batch, lane) ==
    Lanes([b \in 1..8 |-> IF b = lane THEN batch[b] ELSE other_block(batch[b])])

\* every block of the batch that worker w encrypted last is the block that
\* ParallelEncrypt writes for the batch that agrees on the lane only
lane_independent(w) ==
    \A lane \in 1..8 :
        ParallelEncrypt(other_batch(last_input(w), lane), roundKeys)[lane]
          = last_output(w, lane)

slice(w) ==
    workers[w].output .. (workers[w].output + workers[w].batchCount * batchSize * 16 - 1)

\* the bytes that the iterations 0..batchCount - 1 of EncryptionTask read in the
\* input buffer and write in the output buffer: 8 * 16 bytes per iteration
accessed(w) ==
    workers[w].output .. (workers[w].output + workers[w].batchCount * 8 * 16 - 1)

\* C29: for every batchSize given to ExecuteParallel, every worker reads and
\* writes only bytes of its own slice, within the buffers; the slices of two
\* workers do not overlap; and what EncryptionTask advances per batch is the
\* batchSize blocks by which ExecuteParallel computed the offsets
C29_SliceConfinement ==
    \A w \in 1..Len(workers) :
        /\ workers[w].input = workers[w].output
        /\ accessed(w) \subseteq slice(w)
        /\ accessed(w) \subseteq 0..(Len(cipherData) - 1)
        /\ \A v \in 1..Len(workers) : v # w => slice(v) \cap slice(w) = {}
        /\ 8 * 16 = batchSize * 16

(***************************************************************************)
(* Properties across the engines                                           *)
(***************************************************************************)
\* C14: the three key-expansion routines produce the same 32 subkeys for a key:
\* the rk_ that SM4::keyExpansion leaves and the array that SM4Core::KeyExpansion
\* returns equal the array that generate_round_keys returns
C14_KeyScheduleAgreement ==
    round_keys # <<>>
        => /\ rk_ \notin UninitRk => rk_ = round_keys
           /\ KeyExpansion(secret_key) = round_keys

\* C17: SM4::encryptBlock after SM4::setKey returns the 16 bytes that
\* sm4_block_encrypt returns under generate_round_keys' round keys, for the same
\* key and block
C17_GcmEngineIsScalarEngine ==
    (ciphertext # <<>> /\ sm4_out # <<>> /\ rk_ \notin UninitRk) => sm4_out = ciphertext

====
